---- MODULE Spec2Model ----
(***************************************************************************)
(* Repository connectivity verification and trust negotiation of           *)
(* reviewboard/webapi/resources/repository.py: RepositoryResource.create   *)
(* and RepositoryResource.update call _check_repository, which probes the  *)
(* repository with scmtool_class.check_repository and, when trust_host is  *)
(* set, answers host-key and certificate failures by changing the trust    *)
(* store and probing again.                                                *)
(*                                                                         *)
(* One step of the model is one call that leaves the resource (a probe, a  *)
(* trust store call) together with all of the resource's own code up to    *)
(* the next such call or up to the response of the request.                *)
(***************************************************************************)
EXTENDS Integers, Sequences, FiniteSets, TLC

(***************************************************************************)
(* Bounds of the model.                                                    *)
(***************************************************************************)
\* check_repository calls one _check_repository call may make in the model
\* (the loop of the code has no bound of its own).
MaxProbes == 4
\* clients of the server; each sends at most one request in a behaviour.
MaxClients == 2
\* the same as MaxProbes, when several clients send requests at the same time
MaxProbesConcurrent == 2

Procs == 1..MaxClients

(***************************************************************************)
(* Python values.                                                          *)
(***************************************************************************)
None == "None"
EmptyStr == ""
EmptyDict == [k \in {} |-> EmptyStr]

\* x or d, for x a string or None
Or(x, d) == IF x = None \/ x = EmptyStr THEN d ELSE x

\* dict.update: the entries of b are written over those of a
dict_update(a, b) ==
    [k \in (DOMAIN a) \cup (DOMAIN b) |-> IF k \in DOMAIN b THEN b[k] ELSE a[k]]

\* min(a, b)
Min(a, b) == IF a <= b THEN a ELSE b

\* s[:n] of a string (a sequence of characters)
Prefix(s, n) == SubSeq(s, 1, Min(n, Len(s)))

HexDigit == <<"0", "1", "2", "3", "4", "5", "6", "7", "8", "9", "a", "b", "c",
              "d", "e", "f">>

\* '%x' % n, for n >= 0
RECURSIVE hex(_)
hex(n) ==
    IF n < 16 THEN <<HexDigit[n + 1]>>
    ELSE hex(n \div 16) \o <<HexDigit[(n % 16) + 1]>>

\* '%04x' % n, for 0 <= n < 16^4
hex4(n) ==
    <<HexDigit[(n \div 4096) + 1], HexDigit[((n \div 256) % 16) + 1],
      HexDigit[((n \div 16) % 16) + 1], HexDigit[(n % 16) + 1]>>

\* '%x' % n for a long integer n >= 0, given by its digits of base 16^4, the
\* most significant first (the first is 0 only for n = 0)
RECURSIVE hex_long(_)
hex_long(digits) ==
    IF Len(digits) = 1 THEN hex(digits[1])
    ELSE hex_long(SubSeq(digits, 1, Len(digits) - 1))
            \o hex4(digits[Len(digits)])

Hostnames == {"h1"}
Keys == {"k1", "k2"}
Paths == {"p1", "p2"}
\* local_site is None or a LocalSite, which is known by its name
LocalSites == {None, "site1"}

\* paramiko's PKey.get_base64: the base64 text of the key's bytes
get_base64(key) ==
    CASE key = "k1" -> "azE="
      [] key = "k2" -> "azI="


(***************************************************************************)
(* What a probe can raise.  A failure is a record: cls is its class, the   *)
(* other fields are the attributes the handlers read.                      *)
(***************************************************************************)
NoExc == [cls |-> None]

RepositoryNotFoundErrors ==
    {[cls |-> "RepositoryNotFoundError", msg |-> "no repository at path"]}

BadHostKeyErrors ==
    {[cls |-> "BadHostKeyError", hostname |-> h, raw_expected_key |-> x,
      raw_key |-> k] : h \in Hostnames, x \in Keys, k \in Keys} \
    {[cls |-> "BadHostKeyError", hostname |-> h, raw_expected_key |-> k,
      raw_key |-> k] : h \in Hostnames, k \in Keys}

UnknownHostKeyErrors ==
    {[cls |-> "UnknownHostKeyError", hostname |-> h, raw_key |-> k] :
        h \in Hostnames, k \in Keys}

Certificates ==
    {[failures |-> <<"untrusted issuer", "expired">>, fingerprint |-> "fp1",
      hostname |-> "h1", issuer |-> "ca1", valid_from |-> "t1",
      valid_until |-> "t2"]}

UnverifiedCertificateErrors ==
    {[cls |-> "UnverifiedCertificateError", certificate |-> c] :
        c \in Certificates}

AllowedTypes == {{"publickey"}, {"publickey", "password"}, {"password"}}
UserKeys == {None, "uk1"}

AuthenticationErrors ==
    {[cls |-> "AuthenticationError", allowed_types |-> t, user_key |-> u,
      msg |-> "authentication rejected"] : t \in AllowedTypes, u \in UserKeys}

SSHErrors == {[cls |-> "SSHError", msg |-> "connection reset"]}
SCMErrors == {[cls |-> "SCMError", msg |-> "backend refused"]}
\* failures of no class the handlers name
OtherErrors ==
    {[cls |-> "ValueError", msg |-> "bad value"],
     [cls |-> "IOError", msg |-> "timed out"]}

ProbeFailures ==
    RepositoryNotFoundErrors \cup BadHostKeyErrors \cup UnknownHostKeyErrors
    \cup UnverifiedCertificateErrors \cup AuthenticationErrors
    \cup SSHErrors \cup SCMErrors \cup OtherErrors

\* scmtool_class.check_repository returns (NoExc) or raises
ProbeResults == {NoExc} \cup ProbeFailures

\* The classes of reviewboard.ssh.errors and reviewboard.scmtools.errors
\* the resource imports, each with its base classes (itself included).
Bases(cls) ==
    CASE cls = "RepositoryNotFoundError" ->
            {"RepositoryNotFoundError", "SCMError", "Exception"}
      [] cls = "BadHostKeyError" -> {"BadHostKeyError", "SSHError", "Exception"}
      [] cls = "UnknownHostKeyError" ->
            {"UnknownHostKeyError", "SSHError", "Exception"}
      [] cls = "UnverifiedCertificateError" ->
            {"UnverifiedCertificateError", "SCMError", "Exception"}
      [] cls = "AuthenticationError" ->
            {"AuthenticationError", "SSHError", "SCMError", "Exception"}
      [] cls = "SSHError" -> {"SSHError", "Exception"}
      [] cls = "SCMError" -> {"SCMError", "Exception"}
      [] cls = "IOError" -> {"IOError", "EnvironmentError", "Exception"}
      [] cls = "OSError" -> {"OSError", "EnvironmentError", "Exception"}
      [] OTHER -> {cls, "Exception"}

isinstance(ex, cls) == cls \in Bases(ex.cls)

\* str(e)
str(ex) == ex.msg

(***************************************************************************)
(* What the trust store calls can do.                                      *)
(***************************************************************************)
\* what SSHClient(...).replace_host_key / add_host_key and
\* scmtool_class.accept_certificate can raise
IOErrors == {[cls |-> "IOError", msg |-> "unable to write host keys file"]}
NonIOErrors == {[cls |-> "OSError", msg |-> "permission denied"]}
CallFailures == IOErrors \cup NonIOErrors

\* what accept_certificate can return: None, or a dict of certificate data
NoneValue == [py |-> "None", items |-> EmptyDict]

AcceptReturns ==
    {NoneValue,
     [py |-> "dict", items |-> EmptyDict],
     [py |-> "dict", items |-> [fingerprint |-> "fp1"]],
     [py |-> "dict", items |-> [fingerprint |-> "fp2", hostname |-> "h1"]]}

\* truth value of a dict or None
truthy(v) == v.py = "dict" /\ DOMAIN v.items # {}

NoCall == [fn |-> None]


(***************************************************************************)
(* The error results of reviewboard.webapi.errors the resource returns.    *)
(***************************************************************************)
Success == [code |-> None]
MISSING_REPOSITORY == [code |-> "MISSING_REPOSITORY"]
MISSING_USER_KEY == [code |-> "MISSING_USER_KEY"]
PERMISSION_DENIED == [code |-> "PERMISSION_DENIED"]
DOES_NOT_EXIST == [code |-> "DOES_NOT_EXIST"]
INVALID_FORM_DATA == [code |-> "INVALID_FORM_DATA", fields |-> {"tool"}]

BAD_HOST_KEY(ex) ==
    [code |-> "BAD_HOST_KEY", hostname |-> ex.hostname,
     expected_key |-> get_base64(ex.raw_expected_key),
     key |-> get_base64(ex.raw_key)]

UNVERIFIED_HOST_KEY(ex) ==
    [code |-> "UNVERIFIED_HOST_KEY", hostname |-> ex.hostname,
     key |-> get_base64(ex.raw_key)]

UNVERIFIED_HOST_CERT(ex) ==
    [code |-> "UNVERIFIED_HOST_CERT",
     certificate |->
        [failures |-> ex.certificate.failures,
         fingerprint |-> ex.certificate.fingerprint,
         hostname |-> ex.certificate.hostname,
         issuer |-> ex.certificate.issuer,
         valid |-> [from |-> ex.certificate.valid_from,
                    until |-> ex.certificate.valid_until]]]

SERVER_CONFIG_ERROR(ex) == [code |-> "SERVER_CONFIG_ERROR", reason |-> str(ex)]

REPO_AUTHENTICATION_ERROR(ex) ==
    [code |-> "REPO_AUTHENTICATION_ERROR", reason |-> str(ex)]

REPO_INFO_ERROR(ex) == [code |-> "REPO_INFO_ERROR", error |-> str(ex)]

(***************************************************************************)
(* _check_repository, lines 456-555.                                       *)
(***************************************************************************)
\* lines 458-461
local_site_name(local_site) ==
    IF local_site # None THEN local_site ELSE None

Return(value) == [do |-> "return", value |-> value]
Reraise == [do |-> "raise"]
Call(c) == [do |-> "call", call |-> c]

\* on_BadHostKeyError adding the new key instead of replacing the old one
on_BadHostKeyError_adding(ex, trust_host, site_name) ==
    IF trust_host
    THEN Call([fn |-> "add_host_key", namespace |-> site_name,
               hostname |-> ex.hostname, key |-> ex.raw_key])
    ELSE Return(BAD_HOST_KEY(ex))

\* on_BadHostKeyError replacing the key whatever trust_host says
on_BadHostKeyError_untested(ex, trust_host, site_name) ==
    Call([fn |-> "replace_host_key", namespace |-> site_name,
          hostname |-> ex.hostname, old_key |-> ex.raw_expected_key,
          new_key |-> ex.raw_key])

\* lines 472-488: except BadHostKeyError
on_BadHostKeyError(ex, trust_host, site_name) ==
    IF trust_host
    THEN Call([fn |-> "replace_host_key", namespace |-> site_name,
               hostname |-> ex.hostname, old_key |-> ex.raw_expected_key,
               new_key |-> ex.raw_key])
    ELSE Return(BAD_HOST_KEY(ex))

\* on_UnknownHostKeyError adding the key whatever trust_host says
on_UnknownHostKeyError_untested(ex, trust_host, site_name) ==
    Call([fn |-> "add_host_key", namespace |-> site_name,
          hostname |-> ex.hostname, key |-> ex.raw_key])

\* on_UnknownHostKeyError using the SSHClient of no namespace
on_UnknownHostKeyError_global(ex, trust_host, site_name) ==
    IF trust_host
    THEN Call([fn |-> "add_host_key", namespace |-> None,
               hostname |-> ex.hostname, key |-> ex.raw_key])
    ELSE Return(UNVERIFIED_HOST_KEY(ex))

\* lines 489-502: except UnknownHostKeyError
on_UnknownHostKeyError(ex, trust_host, site_name) ==
    IF trust_host
    THEN Call([fn |-> "add_host_key", namespace |-> site_name,
               hostname |-> ex.hostname, key |-> ex.raw_key])
    ELSE Return(UNVERIFIED_HOST_KEY(ex))

\* lines 503-527: except UnverifiedCertificateError
on_UnverifiedCertificateError(ex, trust_host, site_name, path) ==
    IF trust_host
    THEN Call([fn |-> "accept_certificate", path |-> path,
               local_site_name |-> site_name])
    ELSE Return(UNVERIFIED_HOST_CERT(ex))

\* on_AuthenticationError asking for publickey to be the only allowed type
on_AuthenticationError_sole(ex) ==
    IF ex.allowed_types = {"publickey"} /\ ex.user_key = None
    THEN Return(MISSING_USER_KEY)
    ELSE Return(REPO_AUTHENTICATION_ERROR(ex))

\* on_AuthenticationError reporting the rejection as a REPO_INFO_ERROR
on_AuthenticationError_info(ex) ==
    IF "publickey" \in ex.allowed_types /\ ex.user_key = None
    THEN Return(MISSING_USER_KEY)
    ELSE Return(REPO_INFO_ERROR(ex))

\* lines 528-534: except AuthenticationError
on_AuthenticationError(ex) ==
    IF "publickey" \in ex.allowed_types /\ ex.user_key = None
    THEN Return(MISSING_USER_KEY)
    ELSE Return(REPO_AUTHENTICATION_ERROR(ex))

\* on_probe with the clauses of the generic classes before the others
on_probe_generic_first(ex, trust_host, site_name, path) ==
    IF ex = NoExc THEN Return(Success)
    ELSE IF isinstance(ex, "SSHError") THEN Return(REPO_INFO_ERROR(ex))
    ELSE IF isinstance(ex, "SCMError") THEN Return(REPO_INFO_ERROR(ex))
    ELSE IF isinstance(ex, "RepositoryNotFoundError")
        THEN Return(MISSING_REPOSITORY)
    ELSE IF isinstance(ex, "BadHostKeyError")
        THEN on_BadHostKeyError(ex, trust_host, site_name)
    ELSE IF isinstance(ex, "UnknownHostKeyError")
        THEN on_UnknownHostKeyError(ex, trust_host, site_name)
    ELSE IF isinstance(ex, "UnverifiedCertificateError")
        THEN on_UnverifiedCertificateError(ex, trust_host, site_name, path)
    ELSE IF isinstance(ex, "AuthenticationError")
        THEN on_AuthenticationError(ex)
    ELSE Reraise

\* on_probe without the except SSHError clause
on_probe_without_SSHError(ex, trust_host, site_name, path) ==
    IF ex = NoExc THEN Return(Success)
    ELSE IF isinstance(ex, "RepositoryNotFoundError")
        THEN Return(MISSING_REPOSITORY)
    ELSE IF isinstance(ex, "BadHostKeyError")
        THEN on_BadHostKeyError(ex, trust_host, site_name)
    ELSE IF isinstance(ex, "UnknownHostKeyError")
        THEN on_UnknownHostKeyError(ex, trust_host, site_name)
    ELSE IF isinstance(ex, "UnverifiedCertificateError")
        THEN on_UnverifiedCertificateError(ex, trust_host, site_name, path)
    ELSE IF isinstance(ex, "AuthenticationError")
        THEN on_AuthenticationError(ex)
    ELSE IF isinstance(ex, "SCMError") THEN Return(REPO_INFO_ERROR(ex))
    ELSE Reraise

\* on_probe with a last clause that reports the failure instead of raising it
on_probe_swallowing(ex, trust_host, site_name, path) ==
    IF ex = NoExc THEN Return(Success)
    ELSE IF isinstance(ex, "RepositoryNotFoundError")
        THEN Return(MISSING_REPOSITORY)
    ELSE IF isinstance(ex, "BadHostKeyError")
        THEN on_BadHostKeyError(ex, trust_host, site_name)
    ELSE IF isinstance(ex, "UnknownHostKeyError")
        THEN on_UnknownHostKeyError(ex, trust_host, site_name)
    ELSE IF isinstance(ex, "UnverifiedCertificateError")
        THEN on_UnverifiedCertificateError(ex, trust_host, site_name, path)
    ELSE IF isinstance(ex, "AuthenticationError")
        THEN on_AuthenticationError(ex)
    ELSE IF isinstance(ex, "SSHError") THEN Return(REPO_INFO_ERROR(ex))
    ELSE IF isinstance(ex, "SCMError") THEN Return(REPO_INFO_ERROR(ex))
    ELSE Return(REPO_INFO_ERROR(ex))

\* lines 466-555: what the try statement does with the result of the probe:
\* the first except clause the failure is an instance of handles it.
on_probe(ex, trust_host, site_name, path) ==
    IF ex = NoExc THEN Return(Success)
    ELSE IF isinstance(ex, "RepositoryNotFoundError")
        THEN Return(MISSING_REPOSITORY)
    ELSE IF isinstance(ex, "BadHostKeyError")
        THEN on_BadHostKeyError(ex, trust_host, site_name)
    ELSE IF isinstance(ex, "UnknownHostKeyError")
        THEN on_UnknownHostKeyError(ex, trust_host, site_name)
    ELSE IF isinstance(ex, "UnverifiedCertificateError")
        THEN on_UnverifiedCertificateError(ex, trust_host, site_name, path)
    ELSE IF isinstance(ex, "AuthenticationError")
        THEN on_AuthenticationError(ex)
    ELSE IF isinstance(ex, "SSHError") THEN Return(REPO_INFO_ERROR(ex))
    ELSE IF isinstance(ex, "SCMError") THEN Return(REPO_INFO_ERROR(ex))
    ELSE Reraise

\* on_call going on with the loop after an IOError of the trust store call
on_call_retrying(f) ==
    IF f = NoExc \/ isinstance(f, "IOError") THEN [do |-> "loop"]
    ELSE Reraise

\* lines 474-482, 491-497, 505-514: the inner try around a trust store call.
\* f is NoExc when the call returned; only an IOError is caught, and any
\* other failure leaves the handler and _check_repository as it is.
on_call(f) ==
    IF f = NoExc THEN [do |-> "loop"]
    ELSE IF isinstance(f, "IOError") THEN Return(SERVER_CONFIG_ERROR(f))
    ELSE Reraise

\* lines 509-510: if cert: ret_cert.update(cert)
update_ret_cert(cert, returned) ==
    IF truthy(returned) THEN dict_update(cert, returned.items) ELSE cert

(***************************************************************************)
(* The trust store: reviewboard.ssh.client.SSHClient and the SCMTool keep  *)
(* it, outside this resource.  Its records and operations are those the    *)
(* specification gives: a HostKeyRecord is a (namespace, hostname, key),   *)
(* AddHostKey records the key as the trusted key of (namespace, hostname), *)
(* ReplaceHostKey supersedes the record of the pair in one step.           *)
(***************************************************************************)
HostKeyRecord(namespace, hostname, key) ==
    [namespace |-> namespace, hostname |-> hostname, key |-> key]

\* the records of host_keys for (namespace, hostname)
RecordsOf(records, namespace, hostname) ==
    {r \in records : r.namespace = namespace /\ r.hostname = hostname}

\* AddHostKey writing its record next to the one the pair has
AddHostKey_appending(records, namespace, hostname, key) ==
    records \cup {HostKeyRecord(namespace, hostname, key)}

AddHostKey(records, namespace, hostname, key) ==
    (records \ RecordsOf(records, namespace, hostname))
        \cup {HostKeyRecord(namespace, hostname, key)}

\* ReplaceHostKey writing the new record and leaving the old one
ReplaceHostKey_keeping(records, namespace, hostname, old_key, new_key) ==
    records \cup {HostKeyRecord(namespace, hostname, new_key)}

ReplaceHostKey(records, namespace, hostname, old_key, new_key) ==
    (records \ RecordsOf(records, namespace, hostname))
        \cup {HostKeyRecord(namespace, hostname, new_key)}


(***************************************************************************)
(* State.                                                                  *)
(***************************************************************************)
VARIABLES
    clients,        \* how many of the clients send a request
    pc,             \* per client: where its request stands
    request,        \* per client: the request's parameters
    repository,     \* per client: the Repository object the request holds
    probe,          \* per client: the arguments of the last probe
    e,              \* per client: the failure of the last probe (NoExc: none)
    call,           \* per client: the last trust store call of the request
    failure,        \* per client: what that call raised (NoExc: it returned)
    returned,       \* per client: what the last accept_certificate returned
    ret_cert,       \* per client: the cert dict handed to _check_repository
    probes,         \* per client: check_repository calls of the request
    calls,          \* per client: trust store calls of the request, by name
    failures,       \* per client: the distinct probe failures of the request
    error_result,   \* per client: what _check_repository returned
    raised,         \* per client: what left the request as an exception
    response,       \* per client: what the request returned
    host_keys,      \* trust store: the HostKeyRecords
    accepted_certs, \* trust store: accepted (path, namespace) pairs
    repositories,   \* the saved Repository rows
    next_id,        \* the id the next saved row gets
    review_requests \* the ids of the repositories that have review requests

vars == <<clients, pc, request, repository, probe, e, call, failure, returned,
          ret_cert, probes,
          calls, failures, error_result, raised, response, host_keys,
          accepted_certs, repositories, next_id, review_requests>>

store == <<host_keys, accepted_certs>>
database == <<repositories, next_id, review_requests>>

Unset == [code |-> "unset"]
NoRequest == [op |-> None]
NoRepository == [id |-> 0]
NoResponse == [status |-> 0]
NoProbe == [path |-> None]
NoCalls == [replace_host_key |-> 0, add_host_key |-> 0, accept_certificate |-> 0]

Namespaces == {local_site_name(ls) : ls \in LocalSites}

InitClients ==
    /\ pc = [p \in Procs |-> "idle"]
    /\ request = [p \in Procs |-> NoRequest]
    /\ repository = [p \in Procs |-> NoRepository]
    /\ probe = [p \in Procs |-> NoProbe]
    /\ e = [p \in Procs |-> NoExc]
    /\ call = [p \in Procs |-> NoCall]
    /\ failure = [p \in Procs |-> NoExc]
    /\ returned = [p \in Procs |-> NoneValue]
    /\ ret_cert = [p \in Procs |-> EmptyDict]
    /\ probes = [p \in Procs |-> 0]
    /\ calls = [p \in Procs |-> NoCalls]
    /\ failures = [p \in Procs |-> {}]
    /\ error_result = [p \in Procs |-> Unset]
    /\ raised = [p \in Procs |-> NoExc]
    /\ response = [p \in Procs |-> NoResponse]

\* a row of the Repository table
Row(id, name, path, username, password, visible, local_site, extra_data) ==
    [id |-> id, name |-> name, path |-> path, username |-> username,
     password |-> password, visible |-> visible, local_site |-> local_site,
     extra_data |-> extra_data]

NoExtraData == [k \in {} |-> EmptyDict]

\* the Repository table before the requests: two repositories, one of them on
\* a local site, one of them (the first) with review requests
InitRepositories ==
    {Row(1, <<"r", "1">>, "p1", EmptyStr, EmptyStr, TRUE, None, NoExtraData),
     Row(2, <<"r", "2">>, "p1", EmptyStr, EmptyStr, TRUE, "site1",
         NoExtraData)}

InitDatabase ==
    /\ repositories = InitRepositories
    /\ next_id = 3
    /\ review_requests = {1}

\* an installation with an empty trust store and two repositories, one of
\* them on a local site, one of them with review requests
InitData ==
    /\ host_keys = {}
    /\ accepted_certs = {}
    /\ InitDatabase

\* one client sends a request
Init ==
    /\ clients = 1
    /\ InitClients
    /\ InitData

\* the host key trusted before the requests of InitConcurrent
TrustedBefore == {HostKeyRecord(None, "h1", "k1")}

\* two clients send a request each, at the same time or one after the other,
\* to an installation that trusts one host key already
InitConcurrent ==
    /\ clients = 2
    /\ InitClients
    /\ host_keys = TrustedBefore
    /\ accepted_certs = {}
    /\ InitDatabase


(***************************************************************************)
(* The requests.                                                           *)
(***************************************************************************)
Names == {<<"n", "1">>}
\* a name longer than the 50 characters update keeps of it
LongName == [i \in 1..51 |-> "x"]
\* int(time()) when update runs, in digits of base 16^4: 1762221600 (the
\* year 2025), 16^10 - 1 and 16^10 seconds
Times == {<<26889, 24096>>, <<255, 65535, 65535>>, <<256, 0, 0>>}
\* the time of a request that does not read the clock
NoTime == <<0>>
\* (username, password) pairs a request can give; None: not given
Credentials == {<<None, None>>, <<"u1", "pw1">>}
Tools == {"Git"}
ToolNames == Tools \cup {"nosuch"}

\* the arguments _check_repository is called with: create passes the request's
\* fields (lines 249-252), update those of the Repository (lines 393-401)
CheckArgs(p) ==
    IF request[p].op = "create"
    THEN [path |-> request[p].path, username |-> request[p].username,
          password |-> request[p].password,
          local_site |-> request[p].local_site,
          trust_host |-> request[p].trust_host]
    ELSE [path |-> repository[p].path, username |-> repository[p].username,
          password |-> repository[p].password,
          local_site |-> repository[p].local_site,
          trust_host |-> request[p].trust_host]

\* With several clients the model enumerates the requests and the outcomes that
\* reach the trust store, and not every request and outcome of the one-client
\* specification: the probes that succeed or fail with a host key or a
\* certificate, the trust store calls that return or fail with an IOError.
Concurrent == clients > 1

ProbeLimit == IF Concurrent THEN MaxProbesConcurrent ELSE MaxProbes

ConcurrentProbeResults ==
    {NoExc,
     [cls |-> "BadHostKeyError", hostname |-> "h1",
      raw_expected_key |-> "k1", raw_key |-> "k2"]}
        \cup UnknownHostKeyErrors \cup UnverifiedCertificateErrors

ProbeResultsNow == IF Concurrent THEN ConcurrentProbeResults ELSE ProbeResults

CallFailuresNow == IF Concurrent THEN IOErrors ELSE CallFailures

AcceptReturnsNow ==
    IF Concurrent
    THEN {v \in AcceptReturns : DOMAIN v.items = {"fingerprint"}}
    ELSE AcceptReturns

\* probe_args passing no local site name
probe_args_global(a) ==
    [path |-> a.path, username |-> a.username, password |-> a.password,
     local_site_name |-> None]

\* lines 467-468: scmtool_class.check_repository(path, username, password,
\* local_site_name)
probe_args(a) ==
    [path |-> a.path, username |-> a.username, password |-> a.password,
     local_site_name |-> local_site_name(a.local_site)]

\* set_cert forgetting the assignment
set_cert_dropped(extra_data, cert) == extra_data

\* lines 274-275, 406-407: if cert: repository.extra_data['cert'] = cert
set_cert(extra_data, cert) ==
    IF cert # EmptyDict
    THEN [k \in (DOMAIN extra_data) \cup {"cert"} |->
            IF k = "cert" THEN cert ELSE extra_data[k]]
    ELSE extra_data

\* lines 257-275: the Repository create builds
new_repository(r, id, cert) ==
    Row(id, r.name, r.path, Or(r.username, EmptyStr), Or(r.password, EmptyStr),
        r.visible, r.local_site, set_cert(NoExtraData, cert))

\* lines 254-281: create, from the return of _check_repository on
create_after_check(p, value) ==
    IF value # Success
    THEN /\ response' = [response EXCEPT ![p] = value]
         /\ UNCHANGED <<repository, database>>
    ELSE LET repo == new_repository(request[p], next_id, ret_cert[p]) IN
         /\ repository' = [repository EXCEPT ![p] = repo]
         /\ repositories' = repositories \cup {repo}
         /\ next_id' = next_id + 1
         /\ response' = [response EXCEPT ![p] =
                            [status |-> 201, repository |-> repo]]
         /\ UNCHANGED review_requests

\* the fields update copies from the request to the Repository (lines 381-387)
UpdateFields == {"name", "password", "path", "username", "visible"}

\* lines 381-387: setattr(repository, field, value) for every field given
setattrs(repo, kwargs) ==
    [f \in DOMAIN repo |->
        IF f \in UpdateFields \cap DOMAIN kwargs THEN kwargs[f] ELSE repo[f]]

\* access_changed looking at the path only
access_changed_path_only(kwargs) == "path" \in DOMAIN kwargs

\* line 390: the access information is part of the request
access_changed(kwargs) ==
    "path" \in DOMAIN kwargs \/ "username" \in DOMAIN kwargs
        \/ "password" \in DOMAIN kwargs

\* line 416: 'ar:%s:%x' % (repository.name[:50], int(time()))
archived_name(name, now) ==
    <<"a", "r", ":">> \o Prefix(name, 50) \o <<":">> \o hex_long(now)

\* lines 413-423: update, from the archive_name test on
update_save(p, repo, archive_name, now) ==
    LET saved == IF archive_name
                 THEN [repo EXCEPT !.name = archived_name(@, now)]
                 ELSE repo
    IN  /\ repository' = [repository EXCEPT ![p] = saved]
        /\ repositories' = {r \in repositories : r.id # saved.id} \cup {saved}
        /\ response' = [response EXCEPT ![p] =
                            [status |-> 200, repository |-> saved]]
        /\ UNCHANGED <<next_id, review_requests>>

\* update_after_check saving the Repository before it looks at the result
update_after_check_saving(p, value) ==
    IF value # Success
    THEN /\ response' = [response EXCEPT ![p] = value]
         /\ repositories' =
                {r \in repositories : r.id # repository[p].id}
                    \cup {repository[p]}
         /\ UNCHANGED <<repository, next_id, review_requests>>
    ELSE update_save(p, [repository[p] EXCEPT
                            !.extra_data = set_cert(@, ret_cert[p])],
                     request[p].archive_name, request[p].time)

\* lines 403-423: update, from the return of _check_repository on
update_after_check(p, value) ==
    IF value # Success
    THEN /\ response' = [response EXCEPT ![p] = value]
         /\ UNCHANGED <<repository, database>>
    ELSE update_save(p, [repository[p] EXCEPT
                            !.extra_data = set_cert(@, ret_cert[p])],
                     request[p].archive_name, request[p].time)

\* _check_repository returns value to create or update, which runs to its end
Returns(p, value) ==
    /\ error_result' = [error_result EXCEPT ![p] = value]
    /\ pc' = [pc EXCEPT ![p] = "done"]
    /\ IF request[p].op = "create"
       THEN create_after_check(p, value)
       ELSE update_after_check(p, value)
    /\ UNCHANGED <<raised>>

\* line 555 (and a failure no handler catches): the failure leaves
\* _check_repository and the request; the comment of line 554 expects a 500
Raises(p, ex) ==
    /\ raised' = [raised EXCEPT ![p] = ex]
    /\ pc' = [pc EXCEPT ![p] = "done"]
    /\ response' = [response EXCEPT ![p] = [status |-> 500]]
    /\ UNCHANGED <<error_result, repository, database>>

\* lines 213-252: create, up to the first probe
create(p) ==
    /\ pc[p] = "idle"
    /\ p <= clients
    /\ \E name \in Names, path \in Paths, cred \in Credentials,
          local_site \in LocalSites, trust_host \in BOOLEAN,
          can_create \in BOOLEAN, tool \in ToolNames :
        /\ Concurrent =>
                (can_create /\ tool \in Tools /\ path = "p1" /\ cred[1] = None)
        /\ request' = [request EXCEPT ![p] =
                [op |-> "create", name |-> name, path |-> path,
                 username |-> cred[1], password |-> cred[2],
                 local_site |-> local_site, trust_host |-> trust_host,
                 visible |-> TRUE, tool |-> tool]]
        /\ IF ~can_create
           THEN /\ response' = [response EXCEPT ![p] = PERMISSION_DENIED]
                /\ pc' = [pc EXCEPT ![p] = "done"]
           ELSE IF tool \notin Tools
           THEN /\ response' = [response EXCEPT ![p] = INVALID_FORM_DATA]
                /\ pc' = [pc EXCEPT ![p] = "done"]
           ELSE /\ pc' = [pc EXCEPT ![p] = "check_repository"]
                /\ UNCHANGED response
    /\ ret_cert' = [ret_cert EXCEPT ![p] = EmptyDict]
    /\ UNCHANGED <<clients, repository, probe, e, call, failure, returned, probes,
                   calls, failures, error_result, raised, store, database>>

\* the fields an update request can give (trust_host and archive_name apart)
UpdateKwargs ==
    {EmptyDict, [path |-> "p2"], [path |-> "p1"], [username |-> "u1"],
     [password |-> "pw1"], [name |-> <<"n", "2">>], [name |-> LongName],
     [visible |-> FALSE]}

\* the ids a request can name: those of the first rows and one of no row
RepositoryIds == 1..3

\* lines 361-423: update, up to the first probe, or to its end when the access
\* information is not part of the request
update(p) ==
    /\ pc[p] = "idle"
    /\ p <= clients
    /\ \E id \in RepositoryIds, kwargs \in UpdateKwargs,
          trust_host \in BOOLEAN, archive_name \in BOOLEAN,
          now \in Times \cup {NoTime}, can_modify \in BOOLEAN :
        LET found == {r \in repositories : r.id = id} IN
        /\ archive_name <=> now # NoTime
        /\ Concurrent =>
                (can_modify /\ id = 2 /\ kwargs = [path |-> "p2"] /\ trust_host
                    /\ ~archive_name)
        /\ request' = [request EXCEPT ![p] =
                [op |-> "update", repository_id |-> id, kwargs |-> kwargs,
                 trust_host |-> trust_host, archive_name |-> archive_name,
                 time |-> now]]
        /\ IF found = {}
           THEN /\ response' = [response EXCEPT ![p] = DOES_NOT_EXIST]
                /\ pc' = [pc EXCEPT ![p] = "done"]
                /\ UNCHANGED <<repository, database>>
           ELSE IF ~can_modify
           THEN /\ response' = [response EXCEPT ![p] = PERMISSION_DENIED]
                /\ pc' = [pc EXCEPT ![p] = "done"]
                /\ UNCHANGED <<repository, database>>
           ELSE LET repo == setattrs(CHOOSE r \in found : TRUE, kwargs) IN
                IF access_changed(kwargs)
                THEN /\ pc' = [pc EXCEPT ![p] = "check_repository"]
                     /\ repository' = [repository EXCEPT ![p] = repo]
                     /\ UNCHANGED <<response, database>>
                ELSE /\ pc' = [pc EXCEPT ![p] = "done"]
                     /\ update_save(p, repo, archive_name, now)
    /\ ret_cert' = [ret_cert EXCEPT ![p] = EmptyDict]
    /\ UNCHANGED <<clients, probe, e, call, failure, returned, probes, calls,
                   failures, error_result, raised, store>>

\* lines 428-454: delete
delete(p) ==
    /\ pc[p] = "idle"
    /\ p <= clients
    /\ \E id \in RepositoryIds, can_delete \in BOOLEAN :
        LET found == {r \in repositories : r.id = id} IN
        /\ Concurrent => (can_delete /\ id = 1)
        /\ request' = [request EXCEPT ![p] =
                            [op |-> "delete", repository_id |-> id]]
        /\ pc' = [pc EXCEPT ![p] = "done"]
        /\ IF found = {}
           THEN /\ response' = [response EXCEPT ![p] = DOES_NOT_EXIST]
                /\ UNCHANGED <<repository, database>>
           ELSE IF ~can_delete
           THEN /\ response' = [response EXCEPT ![p] = PERMISSION_DENIED]
                /\ UNCHANGED <<repository, database>>
           ELSE LET repo == CHOOSE r \in found : TRUE IN
                /\ response' = [response EXCEPT ![p] = [status |-> 204]]
                /\ IF id \notin review_requests
                   THEN /\ repositories' = repositories \ {repo}
                        /\ repository' = [repository EXCEPT ![p] = repo]
                   ELSE /\ repositories' = (repositories \ {repo}) \cup
                                {[repo EXCEPT !.visible = FALSE]}
                        /\ repository' = [repository EXCEPT ![p] =
                                [repo EXCEPT !.visible = FALSE]]
                /\ UNCHANGED <<next_id, review_requests>>
    /\ UNCHANGED <<clients, probe, e, call, failure, returned, ret_cert, probes,
                   calls, failures, error_result, raised, store>>

\* check_repository undoing the trust store calls of the request when the
\* turn ends the request without success
check_repository_undoing(p) ==
    /\ pc[p] = "check_repository"
    /\ probes[p] < ProbeLimit
    /\ \E ex \in ProbeResultsNow :
        LET a == CheckArgs(p)
            r == on_probe(ex, a.trust_host, local_site_name(a.local_site),
                          a.path)
        IN  /\ probes' = [probes EXCEPT ![p] = @ + 1]
            /\ probe' = [probe EXCEPT ![p] = probe_args(a)]
            /\ e' = [e EXCEPT ![p] = ex]
            /\ failures' = [failures EXCEPT ![p] = @ \cup ({ex} \ {NoExc})]
            /\ CASE r.do = "return" ->
                      /\ Returns(p, r.value)
                      /\ IF r.value = Success
                         THEN UNCHANGED store
                         ELSE host_keys' = {} /\ accepted_certs' = {}
                      /\ UNCHANGED call
                 [] r.do = "raise" ->
                      /\ Raises(p, ex)
                      /\ host_keys' = {}
                      /\ accepted_certs' = {}
                      /\ UNCHANGED call
                 [] r.do = "call" ->
                      /\ pc' = [pc EXCEPT ![p] = r.call.fn]
                      /\ call' = [call EXCEPT ![p] = r.call]
                      /\ UNCHANGED <<error_result, raised, response,
                                     repository, database, store>>
    /\ UNCHANGED <<clients, request, failure, returned, ret_cert, calls>>

\* lines 463-555: one turn of the loop: the probe and the except clause that
\* handles its failure, up to the trust store call if the clause makes one
check_repository(p) ==
    /\ pc[p] = "check_repository"
    /\ probes[p] < ProbeLimit
    /\ \E ex \in ProbeResultsNow :
        LET a == CheckArgs(p)
            r == on_probe(ex, a.trust_host, local_site_name(a.local_site),
                          a.path)
        IN  /\ probes' = [probes EXCEPT ![p] = @ + 1]
            /\ probe' = [probe EXCEPT ![p] = probe_args(a)]
            /\ e' = [e EXCEPT ![p] = ex]
            /\ failures' = [failures EXCEPT ![p] = @ \cup ({ex} \ {NoExc})]
            /\ CASE r.do = "return" ->
                      /\ Returns(p, r.value)
                      /\ UNCHANGED call
                 [] r.do = "raise" ->
                      /\ Raises(p, ex)
                      /\ UNCHANGED call
                 [] r.do = "call" ->
                      /\ pc' = [pc EXCEPT ![p] = r.call.fn]
                      /\ call' = [call EXCEPT ![p] = r.call]
                      /\ UNCHANGED <<error_result, raised, response,
                                     repository, database>>
    /\ UNCHANGED <<clients, request, failure, returned, ret_cert, calls,
                   store>>

\* what follows a trust store call: the next turn of the loop, the
\* SERVER_CONFIG_ERROR of the inner except clause, or the failure itself
after_call(p, f) ==
    LET r == on_call(f) IN
    CASE r.do = "loop" ->
            /\ pc' = [pc EXCEPT ![p] = "check_repository"]
            /\ UNCHANGED <<error_result, raised, response, repository,
                           database>>
      [] r.do = "return" -> Returns(p, r.value)
      [] r.do = "raise" -> Raises(p, f)

\* lines 475-478: SSHClient(namespace).replace_host_key(hostname, old, new)
replace_host_key(p) ==
    /\ pc[p] = "replace_host_key"
    /\ calls' = [calls EXCEPT ![p].replace_host_key = @ + 1]
    /\ \E f \in {NoExc} \cup CallFailuresNow :
        /\ failure' = [failure EXCEPT ![p] = f]
        /\ IF f = NoExc
           THEN host_keys' = ReplaceHostKey(host_keys, call[p].namespace,
                                call[p].hostname, call[p].old_key,
                                call[p].new_key)
           ELSE UNCHANGED host_keys
        /\ after_call(p, f)
    /\ UNCHANGED <<clients, request, probe, e, call, returned, ret_cert, probes,
                   failures, accepted_certs>>

\* lines 492-493: SSHClient(namespace).add_host_key(hostname, key)
add_host_key(p) ==
    /\ pc[p] = "add_host_key"
    /\ calls' = [calls EXCEPT ![p].add_host_key = @ + 1]
    /\ \E f \in {NoExc} \cup CallFailuresNow :
        /\ failure' = [failure EXCEPT ![p] = f]
        /\ IF f = NoExc
           THEN host_keys' = AddHostKey(host_keys, call[p].namespace,
                                call[p].hostname, call[p].key)
           ELSE UNCHANGED host_keys
        /\ after_call(p, f)
    /\ UNCHANGED <<clients, request, probe, e, call, returned, ret_cert, probes,
                   failures, accepted_certs>>

\* lines 506-510: scmtool_class.accept_certificate(path, local_site_name)
accept_certificate(p) ==
    /\ pc[p] = "accept_certificate"
    /\ calls' = [calls EXCEPT ![p].accept_certificate = @ + 1]
    /\ \/ \E cert \in AcceptReturnsNow :
            /\ failure' = [failure EXCEPT ![p] = NoExc]
            /\ returned' = [returned EXCEPT ![p] = cert]
            /\ accepted_certs' = accepted_certs \cup
                    {<<call[p].path, call[p].local_site_name>>}
            /\ ret_cert' = [ret_cert EXCEPT ![p] = update_ret_cert(@, cert)]
            /\ after_call(p, NoExc)
       \/ \E f \in CallFailuresNow :
            /\ failure' = [failure EXCEPT ![p] = f]
            /\ UNCHANGED <<accepted_certs, ret_cert, returned>>
            /\ after_call(p, f)
    /\ UNCHANGED <<clients, request, probe, e, call, probes, failures, host_keys>>

Next ==
    \E p \in Procs :
        \/ create(p)
        \/ update(p)
        \/ delete(p)
        \/ check_repository(p)
        \/ replace_host_key(p)
        \/ add_host_key(p)
        \/ accept_certificate(p)

Spec == Init /\ [][Next]_vars

\* two requests, in every interleaving of their steps
SpecConcurrent == InitConcurrent /\ [][Next]_vars


(***************************************************************************)
(* Vocabulary of the properties.                                           *)
(***************************************************************************)
\* client p's request has called _check_repository
Checking(p) == probes[p] > 0

\* _check_repository has returned a value to p's request
Returned(p) == pc[p] = "done" /\ error_result[p] # Unset

\* an exception has left p's request
Faulted(p) == pc[p] = "done" /\ raised[p] # NoExc

TrustHost(p) == Checking(p) /\ request[p].trust_host

TotalCalls(p) ==
    calls[p].replace_host_key + calls[p].add_host_key
        + calls[p].accept_certificate

\* the trust store as InitData leaves it
StoreUntouched ==
    /\ host_keys = {}
    /\ accepted_certs = {}

\* the classes of the probe failures, by the kind of the classifier table
TrustNegotiable ==
    {"BadHostKeyError", "UnknownHostKeyError", "UnverifiedCertificateError"}
NotNegotiable ==
    {"RepositoryNotFoundError", "AuthenticationError", "SSHError", "SCMError"}
Unknown == {x.cls : x \in OtherErrors}

(***************************************************************************)
(* C1.  With trust_host set, a probe that fails with the same              *)
(* BadHostKeyError every time and a replace_host_key that succeeds every   *)
(* time: the call ends, with SERVER_CONFIG_ERROR, within the four probes   *)
(* the specification allows.  Stated for a finite run: once four probes    *)
(* have failed that way, the call has returned SERVER_CONFIG_ERROR.        *)
(***************************************************************************)
SameMismatchSoFar(p) ==
    /\ TrustHost(p)
    /\ e[p] \in BadHostKeyErrors
    /\ failures[p] = {e[p]}
    /\ failure[p] = NoExc
    /\ calls[p].add_host_key = 0
    /\ calls[p].accept_certificate = 0

C1_BoundedRetry ==
    \A p \in Procs :
        (SameMismatchSoFar(p) /\ probes[p] >= 4) =>
            (Returned(p) /\ error_result[p].code = "SERVER_CONFIG_ERROR")

(***************************************************************************)
(* C2.  One call makes at most one trust store call for each of the three  *)
(* trust-negotiable kinds, hence at most 3 such calls and at most 4        *)
(* probes.                                                                 *)
(***************************************************************************)
C2_OneRetryPerKind ==
    \A p \in Procs :
        /\ calls[p].replace_host_key <= 1
        /\ calls[p].add_host_key <= 1
        /\ calls[p].accept_certificate <= 1
        /\ TotalCalls(p) <= 3
        /\ probes[p] <= 4


(***************************************************************************)
(* C3.  A probe failure of a kind that is not trust-negotiable ends the    *)
(* call at once with the error of that kind, with trust_host set or not;   *)
(* when it is the first probe, no trust store call has been made and the   *)
(* trust store is as it was.                                               *)
(***************************************************************************)
\* the error the classifier table gives for a failure that is not negotiable
IsTerminalFor(ex, r) ==
    CASE ex.cls = "RepositoryNotFoundError" -> r = [code |-> "MISSING_REPOSITORY"]
      [] ex.cls = "AuthenticationError" ->
            r.code \in {"MISSING_USER_KEY", "REPO_AUTHENTICATION_ERROR"}
      [] ex.cls \in {"SSHError", "SCMError"} ->
            r = [code |-> "REPO_INFO_ERROR", error |-> ex.msg]
      [] OTHER -> FALSE

C3_NotNegotiableIsTerminal ==
    \A p \in Procs :
        (Checking(p) /\ e[p].cls \in NotNegotiable) =>
            /\ Returned(p)
            /\ ~Faulted(p)
            /\ IsTerminalFor(e[p], error_result[p])
            /\ response[p] = error_result[p]
            /\ TotalCalls(p) = probes[p] - 1
            /\ probes[p] = 1 => (calls[p] = NoCalls /\ StoreUntouched)

C3_Witness ==
    \E p \in Procs :
        /\ TrustHost(p)
        /\ probes[p] = 1
        /\ e[p].cls = "SSHError"
        /\ Returned(p)
        /\ error_result[p].code = "REPO_INFO_ERROR"
        /\ StoreUntouched

(***************************************************************************)
(* C4.  Without trust_host a call makes no trust store call and leaves the *)
(* trust store as it was: the first host-key or certificate failure ends   *)
(* it after one probe with the error of that kind, which carries the       *)
(* hostname and key of the failure (and the expected key of a mismatch,    *)
(* the certificate's fields of a certificate failure).                     *)
(***************************************************************************)
CarriesFailure(ex, r) ==
    CASE ex.cls = "BadHostKeyError" ->
            r = [code |-> "BAD_HOST_KEY", hostname |-> ex.hostname,
                 expected_key |-> get_base64(ex.raw_expected_key),
                 key |-> get_base64(ex.raw_key)]
      [] ex.cls = "UnknownHostKeyError" ->
            r = [code |-> "UNVERIFIED_HOST_KEY", hostname |-> ex.hostname,
                 key |-> get_base64(ex.raw_key)]
      [] ex.cls = "UnverifiedCertificateError" ->
            /\ r.code = "UNVERIFIED_HOST_CERT"
            /\ DOMAIN r = {"code", "certificate"}
            /\ r.certificate.failures = ex.certificate.failures
            /\ r.certificate.fingerprint = ex.certificate.fingerprint
            /\ r.certificate.hostname = ex.certificate.hostname
            /\ r.certificate.issuer = ex.certificate.issuer
            /\ r.certificate.valid.from = ex.certificate.valid_from
            /\ r.certificate.valid.until = ex.certificate.valid_until
      [] OTHER -> FALSE

C4_NoTrustNoMutation ==
    \A p \in Procs :
        (Checking(p) /\ ~request[p].trust_host) =>
            /\ calls[p] = NoCalls
            /\ call[p] = NoCall
            /\ StoreUntouched
            /\ e[p].cls \in TrustNegotiable =>
                /\ Returned(p)
                /\ probes[p] = 1
                /\ CarriesFailure(e[p], error_result[p])
                /\ response[p] = error_result[p]

C4_Witness ==
    \E p \in Procs :
        /\ Checking(p)
        /\ ~request[p].trust_host
        /\ e[p].cls = "BadHostKeyError"
        /\ Returned(p)
        /\ error_result[p].expected_key = get_base64(e[p].raw_expected_key)
        /\ error_result[p].key # error_result[p].expected_key

(***************************************************************************)
(* C5.  With trust_host set and the probes [UnknownHostKeyError, success], *)
(* the call makes one trust store call, add_host_key with the namespace of *)
(* the call and the hostname and key of the failure, probes twice and      *)
(* returns None (success).                                                 *)
(***************************************************************************)
\* the probes of p's call were one UnknownHostKeyError, then a success
UnknownThenSuccess(p) ==
    /\ TrustHost(p)
    /\ probes[p] = 2
    /\ e[p] = NoExc
    /\ failures[p] # {}
    /\ failures[p] \subseteq UnknownHostKeyErrors

C5_AddOnceThenSuccess ==
    \A p \in Procs :
        UnknownThenSuccess(p) =>
            \E u \in failures[p] :
                /\ failures[p] = {u}
                /\ calls[p] = [NoCalls EXCEPT !.add_host_key = 1]
                /\ call[p] = [fn |-> "add_host_key",
                              namespace |->
                                local_site_name(CheckArgs(p).local_site),
                              hostname |-> u.hostname, key |-> u.raw_key]
                /\ failure[p] = NoExc
                /\ Returned(p)
                /\ error_result[p] = Success
                /\ accepted_certs = {}
                /\ host_keys =
                    {HostKeyRecord(call[p].namespace, u.hostname, u.raw_key)}

C5_Witness ==
    \E p \in Procs :
        /\ UnknownThenSuccess(p)
        /\ Returned(p)
        /\ error_result[p] = Success
        /\ call[p].namespace = "site1"
        /\ HostKeyRecord("site1", call[p].hostname, call[p].key) \in host_keys


(***************************************************************************)
(* C6.  With trust_host set, a trust store call that fails, in whatever    *)
(* way, ends the call with SERVER_CONFIG_ERROR carrying the message of     *)
(* that failure: no exception leaves the request, no probe and no trust    *)
(* store call follows.                                                     *)
(***************************************************************************)
C6_CallFailureIsConfigError ==
    \A p \in Procs :
        failure[p] # NoExc =>
            /\ Returned(p)
            /\ ~Faulted(p)
            /\ error_result[p] =
                [code |-> "SERVER_CONFIG_ERROR", reason |-> failure[p].msg]

(***************************************************************************)
(* C7.  A probe failure of none of the classes the handlers name leaves    *)
(* the request as the exception it is: _check_repository returns nothing,  *)
(* and no trust store call is made for it, with trust_host set or not.     *)
(***************************************************************************)
C7_UnknownPropagates ==
    \A p \in Procs :
        (Checking(p) /\ e[p].cls \in Unknown) =>
            /\ pc[p] = "done"
            /\ raised[p] = e[p]
            /\ error_result[p] = Unset
            /\ "code" \notin DOMAIN response[p]
            /\ TotalCalls(p) = probes[p] - 1
            /\ probes[p] = 1 => (call[p] = NoCall /\ StoreUntouched)

C7_Witness ==
    \E p \in Procs :
        /\ TrustHost(p)
        /\ e[p] = [cls |-> "IOError", msg |-> "timed out"]
        /\ raised[p] = e[p]
        /\ probes[p] = 1
        /\ StoreUntouched

(***************************************************************************)
(* C8.  Only a probe failure of an unknown class leaves the request as an  *)
(* exception: every other failure, those of the trust store calls          *)
(* included, ends the call with a returned error.                          *)
(***************************************************************************)
C8_OnlyUnknownEscapes ==
    \A p \in Procs :
        raised[p] # NoExc => (raised[p] = e[p] /\ e[p].cls \in Unknown)

(***************************************************************************)
(* C9.  With trust_host set, what accept_certificate returns, when it is   *)
(* not empty, is in the cert dict of the call; when the call then          *)
(* succeeds, create and update save that dict as extra_data['cert'] of the *)
(* repository.  When accept_certificate returns nothing, nothing is put in *)
(* the dict, and an empty dict is not saved.                               *)
(***************************************************************************)
C9_CertIsSaved ==
    \A p \in Procs :
        Checking(p) =>
            /\ truthy(returned[p]) =>
                \A k \in DOMAIN returned[p].items :
                    /\ k \in DOMAIN ret_cert[p]
                    /\ ret_cert[p][k] = returned[p].items[k]
            /\ (calls[p].accept_certificate <= 1 /\ ~truthy(returned[p])) =>
                ret_cert[p] = EmptyDict
            /\ (Returned(p) /\ error_result[p] = Success) =>
                /\ response[p].status =
                        IF request[p].op = "create" THEN 201 ELSE 200
                /\ response[p].repository \in repositories
                /\ response[p].repository.path = CheckArgs(p).path
                /\ response[p].repository.extra_data =
                        IF ret_cert[p] = EmptyDict
                        THEN NoExtraData
                        ELSE [cert |-> ret_cert[p]]

C9_Witness ==
    \E p \in Procs :
        /\ Returned(p)
        /\ error_result[p] = Success
        /\ request[p].op = "update"
        /\ calls[p].accept_certificate = 1
        /\ returned[p].items = [fingerprint |-> "fp2", hostname |-> "h1"]
        /\ \E r \in repositories :
            /\ r.id = request[p].repository_id
            /\ r.extra_data = [cert |-> returned[p].items]

(***************************************************************************)
(* C10, as the specification states it.  An AuthenticationError gives      *)
(* MISSING_USER_KEY only when publickey is the only allowed type and no    *)
(* user key is configured, and REPO_AUTHENTICATION_ERROR with the reason   *)
(* of the failure in every other case.                                     *)
(***************************************************************************)
SoleAndNoKey(ex) == ex.allowed_types = {"publickey"} /\ ex.user_key = None

AmongAndNoKey(ex) == "publickey" \in ex.allowed_types /\ ex.user_key = None

ReachableUntrusting(p) ==
    Checking(p) /\ ~request[p].trust_host /\ e[p] = NoExc

C11_SuccessIsImmediate ==
    /\ \A p \in Procs :
        (Checking(p) /\ e[p] = NoExc) =>
            /\ Returned(p)
            /\ error_result[p] = Success
            /\ TotalCalls(p) = probes[p] - 1
    /\ (\A p \in 1..clients : ReachableUntrusting(p)) =>
            /\ \A p \in 1..clients :
                /\ probes[p] = 1
                /\ calls[p] = NoCalls
                /\ error_result[p] = Success
                /\ response[p].status = 201
            /\ host_keys = TrustedBefore
            /\ accepted_certs = {}

C11_Witness ==
    /\ clients = 2
    /\ \A p \in 1..clients :
        /\ ReachableUntrusting(p)
        /\ Returned(p)
        /\ probes[p] = 1
        /\ probe[p].local_site_name = None
    /\ host_keys = TrustedBefore


(***************************************************************************)
(* C12.  In every state the trust store holds at most one host key for a   *)
(* (namespace, hostname), whatever the requests, their trust_host values   *)
(* and the outcomes of their probes; and a replace_host_key call that      *)
(* returns has, in one step, left the new key as the only record of its    *)
(* pair.                                                                   *)
(***************************************************************************)
OneKeyPerHost ==
    \A namespace \in Namespaces, hostname \in Hostnames :
        Cardinality(RecordsOf(host_keys, namespace, hostname)) <= 1

\* p's replace_host_key call returns in this step
Replaced(p) ==
    /\ pc[p] = "replace_host_key"
    /\ pc'[p] # "replace_host_key"
    /\ failure'[p] = NoExc

ReplaceSupersedes ==
    \A p \in Procs :
        Replaced(p) =>
            RecordsOf(host_keys', call[p].namespace, call[p].hostname) =
                {HostKeyRecord(call[p].namespace, call[p].hostname,
                               call[p].new_key)}

HostKeyWritten(p) ==
    /\ call[p].fn \in {"add_host_key", "replace_host_key"}
    /\ pc[p] \in {"check_repository", "done"}
    /\ failure[p] = NoExc

SubmittedKey(p) ==
    IF call[p].fn = "add_host_key" THEN call[p].key ELSE call[p].new_key

SamePairOtherKey(p, q) ==
    /\ p # q
    /\ HostKeyWritten(p)
    /\ HostKeyWritten(q)
    /\ call[p].namespace = call[q].namespace
    /\ call[p].hostname = call[q].hostname
    /\ SubmittedKey(p) # SubmittedKey(q)

Shape(outcome) == <<outcome.code, DOMAIN outcome>>

\* the probe failures an except clause names, and what the clause returns
\* for one when trust_host is not set
Classified == ProbeFailures \ OtherErrors
OutcomeOf(ex) == on_probe(ex, FALSE, None, "p1").value

\* _check_repository has returned the outcome of the failure of a probe
FailureReturned(p) ==
    Returned(p) /\ e[p] # NoExc /\ failure[p] = NoExc

Generic == {"SSHError", "SCMError"}

DatabaseUntouched ==
    /\ repositories = InitRepositories
    /\ next_id = 3
    /\ review_requests = {1}

CheckFailed(p) == Returned(p) /\ error_result[p] # Success

C15_NothingSavedOnError ==
    \A p \in Procs :
        CheckFailed(p) =>
            /\ response[p] = error_result[p]
            /\ DatabaseUntouched

\* an update that gave a new path and was refused: the Repository object of
\* the request has the new path, the saved row the old one
C15_Witness ==
    \E p \in Procs :
        /\ CheckFailed(p)
        /\ request[p].op = "update"
        /\ repository[p].path = "p2"
        /\ \E r \in repositories :
                r.id = repository[p].id /\ r.path = "p1"
        /\ response[p] = MISSING_REPOSITORY


(***************************************************************************)
(* C16, as the specification states it.  update calls _check_repository    *)
(* exactly when the path, username or password of the request differs from *)
(* that of the repository.                                                 *)
(***************************************************************************)
AccessFields == {"path", "username", "password"}

\* p's update request found its repository and may modify it
Updating(p) ==
    /\ request[p].op = "update"
    /\ response[p] \notin {DOES_NOT_EXIST, PERMISSION_DENIED}

\* the row p's update request names, as it was before the request
RowBefore(p) ==
    CHOOSE r \in InitRepositories : r.id = request[p].repository_id

\* the request gives / changes the path, username or password
Supplied(p) == AccessFields \cap DOMAIN request[p].kwargs # {}
Changed(p) ==
    \E f \in AccessFields \cap DOMAIN request[p].kwargs :
        request[p].kwargs[f] # RowBefore(p)[f]

\* the request has reached _check_repository
Verifying(p) == Checking(p) \/ pc[p] = "check_repository"

Deleted(p) == request[p].op = "delete" /\ response[p] = [status |-> 204]

C17_DeleteOnlyHides ==
    \A p \in Procs :
        Deleted(p) =>
            /\ \E r \in InitRepositories :
                /\ r.id = request[p].repository_id
                /\ repositories =
                    (InitRepositories \ {r}) \cup {[r EXCEPT !.visible = FALSE]}
            /\ review_requests = {1}


(***************************************************************************)
(* C18.  With trust_host set, a probe failure is answered by the trust     *)
(* store call of its own kind, made with what the failure carries: a       *)
(* BadHostKeyError by replace_host_key(hostname, expected key, key) of the *)
(* namespace's SSHClient and never by add_host_key, an UnknownHostKeyError *)
(* by add_host_key(hostname, key) and never by replace_host_key, an        *)
(* UnverifiedCertificateError by accept_certificate(path, namespace) and   *)
(* by no host key call.                                                    *)
(***************************************************************************)
CallStates == {"replace_host_key", "add_host_key", "accept_certificate"}

\* the trust store call that answers failure ex in p's request
CallFor(p, ex) ==
    CASE ex.cls = "BadHostKeyError" ->
            [fn |-> "replace_host_key",
             namespace |-> CheckArgs(p).local_site,
             hostname |-> ex.hostname, old_key |-> ex.raw_expected_key,
             new_key |-> ex.raw_key]
      [] ex.cls = "UnknownHostKeyError" ->
            [fn |-> "add_host_key", namespace |-> CheckArgs(p).local_site,
             hostname |-> ex.hostname, key |-> ex.raw_key]
      [] ex.cls = "UnverifiedCertificateError" ->
            [fn |-> "accept_certificate", path |-> CheckArgs(p).path,
             local_site_name |-> CheckArgs(p).local_site]
      [] OTHER -> NoCall

ClassesOf(exs) == {x.cls : x \in exs}

C18_OwnCallPerKind ==
    \A p \in Procs :
        /\ (TrustHost(p) /\ e[p].cls \in TrustNegotiable) =>
            call[p] = CallFor(p, e[p])
        /\ pc[p] \in CallStates =>
            (TrustHost(p) /\ call[p] = CallFor(p, e[p]))
        /\ calls[p].replace_host_key > 0 =>
            "BadHostKeyError" \in ClassesOf(failures[p])
        /\ calls[p].add_host_key > 0 =>
            "UnknownHostKeyError" \in ClassesOf(failures[p])
        /\ calls[p].accept_certificate > 0 =>
            "UnverifiedCertificateError" \in ClassesOf(failures[p])
        /\ ClassesOf(failures[p]) = {"UnverifiedCertificateError"} =>
            host_keys = {}

C18_Witness ==
    \E p \in Procs :
        /\ pc[p] = "replace_host_key"
        /\ e[p] \in BadHostKeyErrors
        /\ call[p].namespace = "site1"
        /\ call[p].old_key = e[p].raw_expected_key
        /\ call[p].new_key = e[p].raw_key
        /\ calls[p].add_host_key = 1


(***************************************************************************)
(* C19.  A probe failure of a class with an except clause of its own       *)
(* (RepositoryNotFoundError, BadHostKeyError, UnknownHostKeyError,         *)
(* UnverifiedCertificateError, AuthenticationError) is never answered by   *)
(* REPO_INFO_ERROR, although it is an SSHError or an SCMError as well:     *)
(* REPO_INFO_ERROR answers only a failure that is of neither of those      *)
(* classes.                                                                *)
(***************************************************************************)
Specific == (TrustNegotiable \cup NotNegotiable) \ Generic

C19_MostSpecificKind ==
    \A p \in Procs :
        /\ (Checking(p) /\ e[p].cls \in Specific) =>
            /\ isinstance(e[p], "SSHError") \/ isinstance(e[p], "SCMError")
            /\ error_result[p].code # "REPO_INFO_ERROR"
            /\ raised[p] # e[p]
        /\ error_result[p].code = "REPO_INFO_ERROR" => e[p].cls \in Generic

C19_Witness ==
    \E p \in Procs :
        /\ e[p].cls = "AuthenticationError"
        /\ isinstance(e[p], "SSHError")
        /\ isinstance(e[p], "SCMError")
        /\ Returned(p)
        /\ error_result[p].code = "REPO_AUTHENTICATION_ERROR"


(***************************************************************************)
(* C20.  A _check_repository call for a local site passes the name of      *)
(* that site (None for no site) to every check_repository call and to      *)
(* every trust store call it makes, and a step of a request changes the    *)
(* trust records of no namespace but the request's own, whatever the       *)
(* probes answer and however the requests of other namespaces interleave.  *)
(***************************************************************************)
\* the namespace of p's request
NamespaceOf(p) == CheckArgs(p).local_site

\* the namespace a trust store call is made for
CallNamespace(c) ==
    IF c.fn = "accept_certificate" THEN c.local_site_name ELSE c.namespace

\* the trust records of a namespace
TrustRecords(keys, certs, namespace) ==
    <<{r \in keys : r.namespace = namespace},
      {c \in certs : c[2] = namespace}>>

NamespacePassed ==
    \A p \in Procs :
        /\ Checking(p) => probe[p].local_site_name = NamespaceOf(p)
        /\ call[p] # NoCall => CallNamespace(call[p]) = NamespaceOf(p)

OtherNamespacesKept ==
    \A namespace \in Namespaces :
        TrustRecords(host_keys', accepted_certs', namespace)
                # TrustRecords(host_keys, accepted_certs, namespace) =>
            \E p \in Procs :
                /\ pc[p] \in CallStates
                /\ pc'[p] # pc[p]
                /\ NamespaceOf(p) = namespace

C20_NamespaceThreaded == []NamespacePassed /\ [][OtherNamespacesKept]_vars

\* a request of site1 has added a host key and accepted a certificate while
\* a request of no site was probing; the key of no site is as it was
C20_Witness ==
    /\ Checking(1)
    /\ NamespaceOf(1) = "site1"
    /\ calls[1].add_host_key = 1
    /\ calls[1].accept_certificate = 1
    /\ probe[1].local_site_name = "site1"
    /\ Checking(2)
    /\ probe[2].local_site_name = None
    /\ TrustRecords(host_keys, accepted_certs, None) = <<TrustedBefore, {}>>
    /\ TrustRecords(host_keys, accepted_certs, "site1") # <<{}, {}>>


(***************************************************************************)
(* C21.  The name update gives a repository when archive_name is set,      *)
(* 'ar:' + the first 50 characters of the old name + ':' + the time in     *)
(* hexadecimal, is at most 64 characters long, whatever the old name and   *)
(* the time.                                                               *)
(***************************************************************************)
\* p's update request was made with archive_name and has saved the repository
Archived(p) ==
    /\ request[p].op = "update"
    /\ request[p].archive_name
    /\ pc[p] = "done"
    /\ response[p] \notin {DOES_NOT_EXIST, PERMISSION_DENIED}
    /\ Checking(p) => (Returned(p) /\ error_result[p] = Success)

C21_ArchivedNameFits ==
    \A p \in Procs :
        Archived(p) =>
            /\ response[p].repository \in repositories
            /\ Len(response[p].repository.name) <= 64


(***************************************************************************)
(* C22.  In a _check_repository call, probes and trust store calls         *)
(* alternate, a probe first; when the call returns, it has made one probe  *)
(* more than trust store calls that returned, and what it returns is       *)
(* decided by its last step: the outcome of the last probe, or             *)
(* SERVER_CONFIG_ERROR when the last step is a trust store call that       *)
(* failed, whatever the earlier probes of the call failed with.            *)
(***************************************************************************)
\* the trust store calls of p's request that returned (a call that fails is
\* the last step of the request)
SuccessfulCalls(p) ==
    TotalCalls(p) - (IF failure[p] # NoExc THEN 1 ELSE 0)

\* r is what the except clause of failure ex returns, from ex alone
OutcomeOfLast(ex, trust_host, r) ==
    CASE ex = NoExc -> r = Success
      [] ex.cls = "AuthenticationError" ->
            r = IF AmongAndNoKey(ex)
                THEN [code |-> "MISSING_USER_KEY"]
                ELSE [code |-> "REPO_AUTHENTICATION_ERROR", reason |-> ex.msg]
      [] ex.cls \in NotNegotiable \ {"AuthenticationError"} ->
            IsTerminalFor(ex, r)
      [] ex.cls \in TrustNegotiable -> ~trust_host /\ CarriesFailure(ex, r)
      [] OTHER -> FALSE

DecidedByLastStep ==
    \A p \in Procs :
        Returned(p) =>
            /\ probes[p] = SuccessfulCalls(p) + 1
            /\ IF failure[p] # NoExc
               THEN error_result[p] =
                        [code |-> "SERVER_CONFIG_ERROR",
                         reason |-> failure[p].msg]
               ELSE OutcomeOfLast(e[p], request[p].trust_host,
                                  error_result[p])

\* a step is a probe only after as many calls as probes, and a trust store
\* call only after one probe more than calls
Alternate ==
    \A p \in Procs :
        /\ probes'[p] # probes[p] =>
            /\ probes'[p] = probes[p] + 1
            /\ TotalCalls(p) = probes[p]
            /\ calls'[p] = calls[p]
        /\ calls'[p] # calls[p] =>
            /\ TotalCalls(p)' = TotalCalls(p) + 1
            /\ probes[p] = TotalCalls(p) + 1
            /\ probes'[p] = probes[p]
            /\ failure[p] = NoExc

C22_AlternateAndLastDecides == []DecidedByLastStep /\ [][Alternate]_vars

\* three probes, failing with two different kinds, and two calls between them
C22_Witness ==
    \E p \in Procs :
        /\ Returned(p)
        /\ probes[p] = 3
        /\ calls[p] = [NoCalls EXCEPT !.add_host_key = 1,
                                      !.accept_certificate = 1]
        /\ failure[p] = NoExc
        /\ e[p].cls = "RepositoryNotFoundError"
        /\ error_result[p] = MISSING_REPOSITORY


(***************************************************************************)
(* C23.  What a _check_repository call has written to the trust store      *)
(* stays there when the call ends without success: a host key added or     *)
(* replaced and a certificate accepted on the way are still in the store   *)
(* after a later probe of the call has ended it with an error or with an   *)
(* exception, although no repository is saved and the certificate data     *)
(* collected in ret_cert goes nowhere.                                     *)
(***************************************************************************)
\* p's request has ended in _check_repository, and not with success
EndedWithoutSuccess(p) ==
    /\ Checking(p)
    /\ pc[p] = "done"
    /\ CheckFailed(p) \/ Faulted(p)

\* the record the last trust store call of p's request has written
Written(p) ==
    IF call[p].fn = "accept_certificate"
    THEN <<call[p].path, call[p].local_site_name>> \in accepted_certs
    ELSE HostKeyRecord(call[p].namespace, call[p].hostname, SubmittedKey(p))
            \in host_keys

NothingUndone ==
    \A p \in Procs :
        EndedWithoutSuccess(p) =>
            /\ DatabaseUntouched
            /\ "repository" \notin DOMAIN response[p]
            /\ (call[p] # NoCall /\ failure[p] = NoExc) => Written(p)

\* no step takes a host key's pair or an accepted certificate out of the
\* store, and the step that ends a request changes nothing in it
StoreKept ==
    /\ \A r \in host_keys :
            RecordsOf(host_keys', r.namespace, r.hostname) # {}
    /\ accepted_certs \subseteq accepted_certs'
    /\ \A p \in Procs :
        (pc[p] = "check_repository" /\ pc'[p] = "done") => store' = store

C23_NoRollback == []NothingUndone /\ [][StoreKept]_vars

\* a create with trust_host: a host key added, a certificate accepted, then
\* the repository not found
C23_Witness ==
    \E p \in Procs :
        /\ EndedWithoutSuccess(p)
        /\ request[p].op = "create"
        /\ error_result[p] = MISSING_REPOSITORY
        /\ calls[p] = [NoCalls EXCEPT !.add_host_key = 1,
                                      !.accept_certificate = 1]
        /\ host_keys # {}
        /\ accepted_certs # {}
        /\ ret_cert[p] # EmptyDict
        /\ DatabaseUntouched

====
